---- MODULE Spec2Model ----
(***************************************************************************)
(* LNURL-auth background action (actions/lnurl/auth.ts): authWithPrompt    *)
(* and auth, as a state machine.  One step of a flow is the code between   *)
(* two awaits: an action fires when the awaited collaborator (trust store, *)
(* consent prompt, connector, HTTP client) settles, and runs the code up   *)
(* to the next await or to the return.                                     *)
(***************************************************************************)
EXTENDS Integers, Sequences, FiniteSets, TLC

\* ------------------------------------------------------------- bounds
\* Writes to the allowances table by writers other than the flows.
MaxExtWrites == 1

\* ------------------------------------------------------------- values
\* Concurrent invocations of authWithPrompt.
Flows == {"f1", "f2"}
\* The LNURLDetails objects the callers hold, named by the call that brought
\* them; a later call may be passed the object of an earlier one.
Challenges == Flows

\* JavaScript's undefined and null, for string-valued places.
undefined == "<undefined>"
null == "<null>"
\* The empty (falsy) value of the byte/hex strings of the derivation.
Empty == <<>>

LNURLAUTH_CANONICAL_PHRASE ==
  "DO NOT EVER SIGN THIS TEXT WITH YOUR PRIVATE KEYS! IT IS ONLY USED FOR DERIVATION OF LNURL-AUTH HASHING-KEY, DISCLOSING ITS SIGNATURE WILL COMPROMISE YOUR LNURL-AUTH IDENTITY AND MAY LEAD TO LOSS OF FUNDS!"

\* message.origin.host of a request, and the hosts stored in allowances.
OriginHosts == {"site.com"}
RecordHosts == {"Site.com", "other.com"}

toLowerCase(h) == IF h = "Site.com" THEN "site.com" ELSE h

\* Dexie's where("host").equalsIgnoreCase(h)
equalsIgnoreCase(a, b) == toLowerCase(a) = toLowerCase(b)

\* String.prototype.toUpperCase on the status strings a server sends.
toUpperCase(s) ==
  CASE s = "ok" -> "OK"
    [] s = "Ok" -> "OK"
    [] s = "error" -> "ERROR"
    [] OTHER -> s

\* A thrown or rejected value: an Error with a message, or another value.
\* e.message of a value that is no Error is undefined.
Err(m) ==
  [isError |-> TRUE, isAxiosError |-> FALSE, reason |-> undefined,
   message |-> m, value |-> undefined]
NonErr(v) ==
  [isError |-> FALSE, isAxiosError |-> FALSE, reason |-> undefined,
   message |-> undefined, value |-> v]

\* ------------------------------------------------------- trust store
\* The value of `allowance` when first() finds nothing.
NoAllowance ==
  [id |-> 0, host |-> undefined, enabled |-> FALSE, lnurlAuth |-> FALSE]

Row(id, r) ==
  [id |-> id, host |-> r.host, enabled |-> r.enabled, lnurlAuth |-> r.lnurlAuth]

\* db.allowances.where("host").equalsIgnoreCase(host).first()
first(table, host) ==
  LET hits == {id \in DOMAIN table : equalsIgnoreCase(table[id].host, host)}
  IN  IF hits = {} THEN NoAllowance
      ELSE LET id == CHOOSE i \in hits : \A j \in hits : i <= j
           IN  Row(id, table[id])

\* Faulty variant of update: the flag is switched, not set.
updateToggle(table, id) ==
  IF id \in DOMAIN table
    THEN [table EXCEPT ![id].lnurlAuth = ~@]
    ELSE table

\* db.allowances.update(id, {lnurlAuth: true}): a patch of one field of the
\* row with that primary key; no row, no effect.
update(table, id) ==
  IF id \in DOMAIN table
    THEN [table EXCEPT ![id].lnurlAuth = TRUE]
    ELSE table

\* ------------------------------------------------------- derivation
\* sha256(x).toString(Hex): an injective digest, never empty.
sha256(x) == <<"sha256">> \o x

\* hmacSHA256(message, key).toString(Hex)
hmacSHA256(message, key) == <<"hmac">> \o key \o <<"/">> \o message

\* new HashKeySigner(priv): pkHex and sign(k1).toDER("hex")
pkHex(priv) == <<"pk">> \o priv
signDER(priv, k1) == <<"der">> \o priv \o <<"/">> \o k1

\* utils.hexToUint8Array: the bytes of a hex string, nothing for a string
\* that is missing or does not decode.
hexToUint8Array(k1) ==
  IF k1 \in {<<"ab12">>} THEN <<"bytes">> \o k1 ELSE Empty

IncorrectTag(tag) ==
  CASE tag = "withdrawRequest" ->
         "LNURL-AUTH FAIL: incorrect tag: withdrawRequest was used"
    [] OTHER -> "LNURL-AUTH FAIL: incorrect tag"

\* ------------------------------------------------------------ inputs
Times == {<<"1700000000000">>}

ParamNames == {"tag", "k1", "sig", "key", "t"}

\* The query of the service URL as the challenge arrives.
Query(tag, k1) ==
  [p \in ParamNames |->
     CASE p = "tag" -> <<tag>>
       [] p = "k1" -> k1
       [] OTHER -> Empty]

\* One defect at a time: a good challenge, a wrong tag, no host, no k1.
LNURLDetails ==
  {[tag |-> t, k1 |-> k, url |-> [host |-> h, searchParams |-> Query(t, k)]] :
     <<t, h, k>> \in {<<"login", <<"svc.example">>, <<"ab12">>>>,
                      <<"withdrawRequest", <<"svc.example">>, <<"ab12">>>>,
                      <<"login", Empty, <<"ab12">>>>,
                      <<"login", <<"svc.example">>, Empty>>}}

NoDetails ==
  [tag |-> undefined, k1 |-> Empty,
   url |-> [host |-> Empty, searchParams |-> [p \in ParamNames |-> Empty]]]

\* What the consent prompt resolves with, and what it rejects with.
PromptData ==
  {[confirmed |-> FALSE, remember |-> FALSE],
   [confirmed |-> TRUE, remember |-> FALSE],
   [confirmed |-> TRUE, remember |-> TRUE]}
PromptRejections == {Err("User rejected"), NonErr("closed")}

\* connector.signMessage: the signature of the response, or a rejection.
Signatures == {<<"sigA">>, Empty}
SignRejections == {Err("signMessage failed"), NonErr("locked")}
ConnectorRejections == {Err("Account not found")}

\* axios.get: a 2xx response with a parsed body, or a rejection.
Body(status, reason) == [status |-> status, reason |-> reason]
Bodies ==
  {Body("OK", undefined), Body("ok", undefined), Body("ERROR", "bad sig"),
   Body("ERROR", undefined), Body(undefined, undefined)}
\* An AxiosError carries the response body's reason when there is a response.
\* (e.response.data.reason, undefined when there is no response or no reason.)
AxiosError(reason, m) == [Err(m) EXCEPT !.isAxiosError = TRUE, !.reason = reason]
HttpRejections ==
  {AxiosError("bad sig", "Request failed with status code 400"),
   AxiosError(undefined, "Network Error"),
   Err("socket hang up"),
   NonErr("aborted")}

\* ------------------------------------------------------------- state
VARIABLES
  pc,            \* where each flow is suspended, or how it ended
  message,       \* message.origin of each call: hasHost, host
  details,       \* which LNURLDetails object each call was passed
  lnurlDetails,  \* the LNURLDetails objects (auth writes to their url)
  allowance,     \* authWithPrompt's local `allowance`, while it is live
  loginStatus,   \* authWithPrompt's local `loginStatus`
  authResponse,  \* authWithPrompt's local `authResponse.data`, while live
  result,        \* what authWithPrompt's promise settled with
  published,     \* the PubSub topics each flow published, in order
  signArgs,      \* what each flow handed to connector.signMessage
  loginURL,      \* the URL each flow handed to axios.get
  allowances,    \* db.allowances: primary key -> row
  nextId,        \* the table's auto-increment counter
  storage,       \* what db.saveToStorage last persisted
  password,      \* state.getState().password
  calls,         \* history: calls each flow made to its collaborators
  gate,          \* history: the trust condition when the flow decided
  rejection,     \* history: what a collaborator of the flow rejected with
  response,      \* history: the body the GET of the flow resolved with
  reread,        \* history: whether the re-read found a row of the host
  raced,         \* history: another writer wrote the row the flow updates
  extWrites      \* history: number of writes by other writers

vars ==
  <<pc, message, details, lnurlDetails, allowance, loginStatus, authResponse,
    result, published, signArgs, loginURL, allowances, nextId, storage,
    password, calls, gate, rejection, response, reread, raced, extWrites>>

flowVars ==
  <<pc, message, details, lnurlDetails, allowance, loginStatus, authResponse,
    result, published, signArgs, loginURL, calls, gate, rejection, response,
    reread>>

storeVars == <<allowances, nextId, storage>>
envVars == <<allowances, nextId, storage, password, raced, extWrites>>

\* How a call of authWithPrompt ended.
Pending == [kind |-> "pending", error |-> undefined, data |-> Body(undefined, undefined)]
RUndefined == [kind |-> "undefined", error |-> undefined, data |-> Body(undefined, undefined)]
RError(reason) == [kind |-> "error", error |-> reason, data |-> Body(undefined, undefined)]
RData(body) == [kind |-> "data", error |-> undefined, data |-> body]
RThrow(m) == [kind |-> "throw", error |-> m, data |-> Body(undefined, undefined)]

NoCalls ==
  [prompt |-> 0, sign |-> 0, http |-> 0, update |-> 0, flush |-> 0,
   flushed |-> 0]
NoOrigin == [hasHost |-> FALSE, host |-> undefined]
NoStatus == [confirmed |-> FALSE, remember |-> FALSE]
NoSignArgs == [message |-> undefined, key_family |-> -1, key_index |-> -1]
NoURL == [host |-> Empty, searchParams |-> [p \in ParamNames |-> Empty]]

\* The allowances table when the first request arrives: empty, or the rows
\* of sites enabled before, with auto-login remembered or not.
NewRow(h) == [host |-> h, enabled |-> TRUE, lnurlAuth |-> FALSE]
InitialTables ==
  {<<>>,
   <<[NewRow("Site.com") EXCEPT !.lnurlAuth = TRUE], NewRow("other.com")>>}

\* History values: no rejection yet, no response yet.
Thrown(by, e) == [by |-> by, e |-> e]
NoRejection == Thrown("none", NonErr(undefined))
Resolved(body) == [resolved |-> TRUE, body |-> body]
NoResponse == [resolved |-> FALSE, body |-> Body(undefined, undefined)]

Ended == {"returned", "threw"}
InFlight(f) == pc[f] \notin ({"idle"} \cup Ended)

Init ==
  /\ pc = [f \in Flows |-> "idle"]
  /\ message = [f \in Flows |-> NoOrigin]
  /\ details = [f \in Flows |-> "none"]
  /\ lnurlDetails = [d \in Challenges |-> NoDetails]
  /\ allowance = [f \in Flows |-> NoAllowance]
  /\ loginStatus = [f \in Flows |-> NoStatus]
  /\ authResponse = [f \in Flows |-> Body(undefined, undefined)]
  /\ result = [f \in Flows |-> Pending]
  /\ published = [f \in Flows |-> <<>>]
  /\ signArgs = [f \in Flows |-> NoSignArgs]
  /\ loginURL = [f \in Flows |-> NoURL]
  /\ allowances \in InitialTables
  /\ nextId = Cardinality(DOMAIN allowances) + 1
  /\ storage = allowances
  /\ password \in {null, "secret"}
  /\ calls = [f \in Flows |-> NoCalls]
  /\ gate = [f \in Flows |-> "undecided"]
  /\ rejection = [f \in Flows |-> NoRejection]
  /\ response = [f \in Flows |-> NoResponse]
  /\ reread = [f \in Flows |-> "none"]
  /\ raced = [f \in Flows |-> FALSE]
  /\ extWrites = 0

\* ------------------------------------------------- authWithPrompt, auth
Set(fn, f, v) == [fn EXCEPT ![f] = v]
Publish(f, topics) == [published EXCEPT ![f] = @ \o topics]
Called(f, what) == [calls EXCEPT ![f][what] = @ + 1]

\* A step of flow f that ends in n: where it goes on, what it returned, what
\* it published.
Settle(f, n) ==
  /\ pc' = Set(pc, f, n.pc)
  /\ result' = Set(result, f, n.result)
  /\ published' = Publish(f, n.topics)

\* The catch around `await auth(lnurlDetails)` and the code after it: an
\* Error is published and returned with its message; any other thrown value
\* is dropped, authResponse stays undefined, the status test fails it and
\* the reason is that of no response.
Caught(e) ==
  IF e.isError
    THEN [pc |-> "returned", result |-> RError(e.message),
          topics |-> <<"lnurl.auth.failed">>]
    ELSE [pc |-> "returned", result |-> RError(undefined),
          topics |-> <<"lnurl.auth.failed">>]

\* Faulty variant of Confirmed: auth is entered whatever the decision says.
ConfirmedAnyway(ls, det) ==
  IF det.tag # "login"
    THEN Caught(Err(IncorrectTag(det.tag)))
    ELSE [pc |-> "connector", result |-> Pending, topics |-> <<>>]

\* Faulty variant of Confirmed: auth does not test the tag.
ConfirmedAnyTag(ls, det) ==
  IF ~ls.confirmed
    THEN [pc |-> "returned", result |-> RUndefined, topics |-> <<>>]
    ELSE [pc |-> "connector", result |-> Pending, topics |-> <<>>]

\* `if (loginStatus.confirmed)` and the entry of auth up to its first await:
\* the tag test, then getConnector().
Confirmed(ls, det) ==
  IF ~ls.confirmed
    THEN [pc |-> "returned", result |-> RUndefined, topics |-> <<>>]
    ELSE IF det.tag # "login"
      THEN Caught(Err(IncorrectTag(det.tag)))
      ELSE [pc |-> "connector", result |-> Pending, topics |-> <<>>]

\* Faulty variant of AutoApprove: the lock is not looked at.
AutoApproveLocked(isUnlocked, a) ==
  a.id # 0 /\ a.enabled /\ a.lnurlAuth

\* `isUnlocked && allowance && allowance.enabled && allowance.lnurlAuth`
AutoApprove(isUnlocked, a) ==
  isUnlocked /\ a.id # 0 /\ a.enabled /\ a.lnurlAuth

\* Faulty variant of Rejected: e.message of whatever was thrown.
RejectedMessage(e) == RError(e.message)

\* The catch around the prompt: e instanceof Error ? e.message : e
Rejected(e) == RError(IF e.isError THEN e.message ELSE e.value)

\* A row of the host is in the table (history).
HasRow(host) ==
  \E id \in DOMAIN allowances : equalsIgnoreCase(allowances[id].host, host)

\* The trust condition, read off the table and the lock (history).
Trusted(host) ==
  /\ password # null
  /\ \E id \in DOMAIN allowances :
       /\ equalsIgnoreCase(allowances[id].host, host)
       /\ allowances[id].enabled
       /\ allowances[id].lnurlAuth

\* Faulty variant of Start: start is published before the origin is tested.
StartPublishFirst(f) ==
  /\ pc[f] = "idle"
  /\ published' = Publish(f, <<"lnurl.auth.start">>)
  /\ \E o \in {NoOrigin} \cup {[hasHost |-> TRUE, host |-> h] : h \in OriginHosts} :
       /\ message' = Set(message, f, o)
       /\ IF ~o.hasHost
            THEN /\ pc' = Set(pc, f, "returned")
                 /\ result' = Set(result, f, RUndefined)
                 /\ UNCHANGED <<details, lnurlDetails>>
            ELSE /\ pc' = Set(pc, f, "lookup")
                 /\ result' = result
                 /\ \E d \in Challenges :
                      /\ d = f \/ lnurlDetails[d] # NoDetails
                      /\ details' = Set(details, f, d)
                      /\ IF d = f
                           THEN \E v \in LNURLDetails :
                                  lnurlDetails' = Set(lnurlDetails, d, v)
                           ELSE lnurlDetails' = lnurlDetails
  /\ UNCHANGED <<allowance, loginStatus, authResponse, signArgs, loginURL,
                 calls, gate, rejection, response, reread, envVars>>

\* authWithPrompt is called: with no host in the origin it returns at once;
\* else it publishes start and looks the allowance up.
Start(f) ==
  /\ pc[f] = "idle"
  /\ \E o \in {NoOrigin} \cup {[hasHost |-> TRUE, host |-> h] : h \in OriginHosts} :
       /\ message' = Set(message, f, o)
       /\ IF ~o.hasHost
            THEN /\ pc' = Set(pc, f, "returned")
                 /\ result' = Set(result, f, RUndefined)
                 /\ UNCHANGED <<published, details, lnurlDetails>>
            ELSE /\ pc' = Set(pc, f, "lookup")
                 /\ result' = result
                 /\ published' = Publish(f, <<"lnurl.auth.start">>)
                 /\ \E d \in Challenges :
                      /\ d = f \/ lnurlDetails[d] # NoDetails
                      /\ details' = Set(details, f, d)
                      /\ IF d = f
                           THEN \E v \in LNURLDetails :
                                  lnurlDetails' = Set(lnurlDetails, d, v)
                           ELSE lnurlDetails' = lnurlDetails
  /\ UNCHANGED <<allowance, loginStatus, authResponse, signArgs, loginURL,
                 calls, gate, rejection, response, reread, envVars>>

\* The lookup settles: auto-approve or open the prompt.  The row read here
\* is used by this test only; `allowance` is assigned again before its next
\* use.
LookupDone(f) ==
  /\ pc[f] = "lookup"
  /\ gate' = Set(gate, f, IF Trusted(message[f].host) THEN "trusted" ELSE "untrusted")
  /\ LET a == first(allowances, message[f].host)
         isUnlocked == password # null
         ls == [confirmed |-> TRUE, remember |-> TRUE]
     IN  IF AutoApprove(isUnlocked, a)
           THEN /\ loginStatus' = Set(loginStatus, f, ls)
                /\ Settle(f, Confirmed(ls, lnurlDetails[details[f]]))
                /\ calls' = calls
           ELSE /\ calls' = Called(f, "prompt")
                /\ pc' = Set(pc, f, "prompt")
                /\ UNCHANGED <<loginStatus, result, published>>
  /\ UNCHANGED <<message, details, lnurlDetails, allowance, authResponse,
                 signArgs, loginURL, rejection, response, reread, envVars>>

\* The prompt resolves with the user's decision.
PromptResolve(f) ==
  /\ pc[f] = "prompt"
  /\ \E data \in PromptData :
       /\ loginStatus' = Set(loginStatus, f, data)
       /\ Settle(f, Confirmed(data, lnurlDetails[details[f]]))
  /\ UNCHANGED <<message, details, lnurlDetails, allowance, authResponse,
                 signArgs, loginURL, calls, gate, rejection, response, reread,
                 envVars>>

\* The prompt rejects: the flow returns the error, nothing is published.
PromptReject(f) ==
  /\ pc[f] = "prompt"
  /\ \E e \in PromptRejections :
       /\ rejection' = Set(rejection, f, Thrown("prompt", e))
       /\ pc' = Set(pc, f, "returned")
       /\ result' = Set(result, f, Rejected(e))
  /\ UNCHANGED <<message, details, lnurlDetails, allowance, loginStatus,
                 authResponse, published, signArgs, loginURL, calls, gate,
                 response, reread, envVars>>

\* getConnector() settles: sign the canonical phrase with key 0/0.
ConnectorResolve(f) ==
  /\ pc[f] = "connector"
  /\ signArgs' = Set(signArgs, f, [message |-> LNURLAUTH_CANONICAL_PHRASE,
                                    key_family |-> 0, key_index |-> 0])
  /\ calls' = Called(f, "sign")
  /\ pc' = Set(pc, f, "sign")
  /\ UNCHANGED <<message, details, lnurlDetails, allowance, loginStatus,
                 authResponse, result, published, loginURL, gate, rejection,
                 response, reread, envVars>>

\* getConnector() rejects: auth rejects with the same value.
ConnectorReject(f) ==
  /\ pc[f] = "connector"
  /\ \E e \in ConnectorRejections :
       /\ rejection' = Set(rejection, f, Thrown("connector", e))
       /\ Settle(f, Caught(e))
  /\ UNCHANGED <<message, details, lnurlDetails, allowance, loginStatus,
                 authResponse, signArgs, loginURL, calls, gate, response,
                 reread, envVars>>

\* Faulty variant of Derive: the linking key is keyed by the challenge too.
DeriveKeyOfK1(det, lnSignature, now) ==
  LET hashingKey == sha256(lnSignature)
      linkingKeyPriv == hmacSHA256(det.url.host \o det.k1, hashingKey)
      k1 == hexToUint8Array(det.k1)
      params == [det.url.searchParams EXCEPT
                   !["sig"] = signDER(linkingKeyPriv, k1),
                   !["key"] = pkHex(linkingKeyPriv),
                   !["t"] = now]
  IN  IF lnSignature = Empty
        THEN [ok |-> FALSE, error |-> Err("Invalid Signature"), url |-> det.url]
      ELSE IF det.url.host = Empty \/ hashingKey = Empty
        THEN [ok |-> FALSE, error |-> Err("Invalid input"), url |-> det.url]
      ELSE IF hashingKey = Empty \/ linkingKeyPriv = Empty
        THEN [ok |-> FALSE, error |-> Err("Invalid hashingKey/linkingKey"),
              url |-> det.url]
      ELSE IF det.k1 = Empty \/ k1 = Empty
        THEN [ok |-> FALSE, error |-> Err("Invalid K1"), url |-> det.url]
      ELSE [ok |-> TRUE, error |-> Err(undefined),
            url |-> [det.url EXCEPT !.searchParams = params]]

\* Faulty variant of Derive: k1 is not tested.
DeriveNoK1Check(det, lnSignature, now) ==
  LET hashingKey == sha256(lnSignature)
      linkingKeyPriv == hmacSHA256(det.url.host, hashingKey)
      k1 == hexToUint8Array(det.k1)
      params == [det.url.searchParams EXCEPT
                   !["sig"] = signDER(linkingKeyPriv, k1),
                   !["key"] = pkHex(linkingKeyPriv),
                   !["t"] = now]
  IN  IF lnSignature = Empty
        THEN [ok |-> FALSE, error |-> Err("Invalid Signature"), url |-> det.url]
      ELSE IF det.url.host = Empty \/ hashingKey = Empty
        THEN [ok |-> FALSE, error |-> Err("Invalid input"), url |-> det.url]
      ELSE IF hashingKey = Empty \/ linkingKeyPriv = Empty
        THEN [ok |-> FALSE, error |-> Err("Invalid hashingKey/linkingKey"),
              url |-> det.url]
      ELSE [ok |-> TRUE, error |-> Err(undefined),
            url |-> [det.url EXCEPT !.searchParams = params]]

\* auth from the signature to the request: the linking key of the service
\* host, the signature over k1, and the login URL, which is the challenge's
\* own url object with sig, key and t set.
Derive(det, lnSignature, now) ==
  LET hashingKey == sha256(lnSignature)
      linkingKeyPriv == hmacSHA256(det.url.host, hashingKey)
      k1 == hexToUint8Array(det.k1)
      params == [det.url.searchParams EXCEPT
                   !["sig"] = signDER(linkingKeyPriv, k1),
                   !["key"] = pkHex(linkingKeyPriv),
                   !["t"] = now]
  IN  IF lnSignature = Empty
        THEN [ok |-> FALSE, error |-> Err("Invalid Signature"), url |-> det.url]
      ELSE IF det.url.host = Empty \/ hashingKey = Empty
        THEN [ok |-> FALSE, error |-> Err("Invalid input"), url |-> det.url]
      ELSE IF hashingKey = Empty \/ linkingKeyPriv = Empty
        THEN [ok |-> FALSE, error |-> Err("Invalid hashingKey/linkingKey"),
              url |-> det.url]
      ELSE IF det.k1 = Empty \/ k1 = Empty
        THEN [ok |-> FALSE, error |-> Err("Invalid K1"), url |-> det.url]
      ELSE [ok |-> TRUE, error |-> Err(undefined),
            url |-> [det.url EXCEPT !.searchParams = params]]

\* signMessage resolves: derive, sign, build the URL, send the GET.
SignResolve(f) ==
  /\ pc[f] = "sign"
  /\ \E sig \in Signatures, now \in Times :
       LET d == details[f]
           r == Derive(lnurlDetails[d], sig, now)
       IN  IF r.ok
             THEN /\ lnurlDetails' = [lnurlDetails EXCEPT ![d].url = r.url]
                  /\ loginURL' = Set(loginURL, f, r.url)
                  /\ calls' = Called(f, "http")
                  /\ pc' = Set(pc, f, "http")
                  /\ UNCHANGED <<result, published>>
             ELSE /\ Settle(f, Caught(r.error))
                  /\ UNCHANGED <<lnurlDetails, loginURL, calls>>
  /\ UNCHANGED <<message, details, allowance, loginStatus, authResponse,
                 signArgs, gate, rejection, response, reread, envVars>>

\* Faulty variant of SignReject: the connector is asked again.
SignRejectRetry(f) ==
  /\ pc[f] = "sign"
  /\ \E e \in SignRejections :
       /\ rejection' = Set(rejection, f, Thrown("sign", e))
       /\ pc' = Set(pc, f, "connector")
  /\ UNCHANGED <<message, details, lnurlDetails, allowance, loginStatus,
                 authResponse, result, published, signArgs, loginURL, calls,
                 gate, response, reread, envVars>>

\* signMessage rejects: nothing in auth catches it.
SignReject(f) ==
  /\ pc[f] = "sign"
  /\ \E e \in SignRejections :
       /\ rejection' = Set(rejection, f, Thrown("sign", e))
       /\ Settle(f, Caught(e))
  /\ UNCHANGED <<message, details, lnurlDetails, allowance, loginStatus,
                 authResponse, signArgs, loginURL, calls, gate, response,
                 reread, envVars>>

\* `authResponse?.data.status.toUpperCase() !== "OK"` on a response: a body
\* without a status has nothing to call toUpperCase on.
StatusTest(body) ==
  IF body.status = undefined THEN "TypeError"
  ELSE IF toUpperCase(body.status) # "OK" THEN "failed"
  ELSE "OK"

\* Faulty variant of Classified: remember is not looked at.
ClassifiedAlwaysRemember(body, ls) ==
  CASE StatusTest(body) = "TypeError" ->
         [pc |-> "threw", result |-> RThrow("TypeError"), topics |-> <<>>]
    [] StatusTest(body) = "failed" ->
         [pc |-> "returned", result |-> RError(body.reason),
          topics |-> <<"lnurl.auth.failed">>]
    [] OTHER ->
         [pc |-> "reread", result |-> Pending,
          topics |-> <<"lnurl.auth.success">>]

\* After the status test of a response: the TypeError escapes, a status
\* other than OK is published as failed and returned with the body's reason,
\* OK is published as success and, with remember, the allowance is re-read.
Classified(body, ls) ==
  CASE StatusTest(body) = "TypeError" ->
         [pc |-> "threw", result |-> RThrow("TypeError"), topics |-> <<>>]
    [] StatusTest(body) = "failed" ->
         [pc |-> "returned", result |-> RError(body.reason),
          topics |-> <<"lnurl.auth.failed">>]
    [] OTHER ->
         IF ls.remember
           THEN [pc |-> "reread", result |-> Pending,
                 topics |-> <<"lnurl.auth.success">>]
           ELSE [pc |-> "returned", result |-> RData(body),
                 topics |-> <<"lnurl.auth.success">>]

\* The GET resolves.
HttpResolve(f) ==
  /\ pc[f] = "http"
  /\ \E body \in Bodies :
       LET n == Classified(body, loginStatus[f])
       IN  /\ response' = Set(response, f, Resolved(body))
           /\ Settle(f, n)
           /\ authResponse' =
                IF n.pc = "reread" THEN Set(authResponse, f, body)
                ELSE authResponse
  /\ UNCHANGED <<message, details, lnurlDetails, allowance, loginStatus,
                 signArgs, loginURL, calls, gate, rejection, reread, envVars>>

\* auth's catch around axios.get: an AxiosError is rethrown with the body's
\* reason or else its message, another Error with its message, and any
\* other value is swallowed (auth then returns undefined).
Rethrown(e) ==
  IF e.isAxiosError
    THEN [threw |-> TRUE,
          error |-> Err(IF e.reason # undefined THEN e.reason ELSE e.message)]
  ELSE IF e.isError
    THEN [threw |-> TRUE, error |-> Err(e.message)]
  ELSE [threw |-> FALSE, error |-> Err(undefined)]

\* The GET rejects.  When auth returns undefined, authResponse is undefined:
\* the status test fails it and its reason is undefined.
HttpReject(f) ==
  /\ pc[f] = "http"
  /\ \E e \in HttpRejections :
       LET r == Rethrown(e)
       IN  /\ rejection' = Set(rejection, f, Thrown("http", e))
           /\ Settle(f, IF r.threw THEN Caught(r.error)
                        ELSE [pc |-> "returned", result |-> RError(undefined),
                              topics |-> <<"lnurl.auth.failed">>])
  /\ UNCHANGED <<message, details, lnurlDetails, allowance, loginStatus,
                 authResponse, signArgs, loginURL, calls, gate, response,
                 reread, envVars>>

\* Faulty variant of RereadDone: saveToStorage only after an update; with no row the
\* data is returned at once.
RereadDoneUnsaved(f) ==
  /\ pc[f] = "reread"
  /\ reread' = Set(reread, f, IF HasRow(message[f].host) THEN "found" ELSE "missing")
  /\ LET a == first(allowances, message[f].host)
     IN  /\ allowance' = Set(allowance, f, a)
         /\ IF a.id # 0
              THEN /\ calls' = Called(f, "update")
                   /\ pc' = Set(pc, f, "update")
                   /\ result' = result
              ELSE /\ calls' = calls
                   /\ pc' = Set(pc, f, "returned")
                   /\ result' = Set(result, f, RData(authResponse[f]))
  /\ UNCHANGED <<message, details, lnurlDetails, loginStatus, authResponse,
                 published, signArgs, loginURL, gate, rejection, response,
                 envVars>>

\* The re-read settles: update the row it found, or go straight to the save.
RereadDone(f) ==
  /\ pc[f] = "reread"
  /\ reread' = Set(reread, f, IF HasRow(message[f].host) THEN "found" ELSE "missing")
  /\ LET a == first(allowances, message[f].host)
     IN  /\ allowance' = Set(allowance, f, a)
         /\ IF a.id # 0
              THEN /\ calls' = Called(f, "update")
                   /\ pc' = Set(pc, f, "update")
              ELSE /\ calls' = Called(f, "flush")
                   /\ pc' = Set(pc, f, "flush")
  /\ UNCHANGED <<message, details, lnurlDetails, loginStatus, authResponse,
                 result, published, signArgs, loginURL, gate, rejection,
                 response, envVars>>

\* Faulty variant of UpdateDone: the row as it was re-read is written back whole,
\* with lnurlAuth set.
UpdateDonePut(f) ==
  /\ pc[f] = "update"
  /\ allowances' =
       [i \in DOMAIN allowances \cup {allowance[f].id} |->
          IF i = allowance[f].id
            THEN [host |-> allowance[f].host, enabled |-> allowance[f].enabled,
                  lnurlAuth |-> TRUE]
            ELSE allowances[i]]
  /\ allowance' = Set(allowance, f, NoAllowance)
  /\ calls' = Called(f, "flush")
  /\ pc' = Set(pc, f, "flush")
  /\ UNCHANGED <<message, details, lnurlDetails, loginStatus, authResponse,
                 result, published, signArgs, loginURL, gate, rejection,
                 response, reread, nextId, storage, password, raced,
                 extWrites>>

\* Faulty variant of UpdateDone: the flow returns without saveToStorage.
UpdateDoneReturn(f) ==
  /\ pc[f] = "update"
  /\ allowances' = update(allowances, allowance[f].id)
  /\ allowance' = Set(allowance, f, NoAllowance)
  /\ pc' = Set(pc, f, "returned")
  /\ result' = Set(result, f, RData(authResponse[f]))
  /\ authResponse' = Set(authResponse, f, Body(undefined, undefined))
  /\ UNCHANGED <<message, details, lnurlDetails, loginStatus, published,
                 signArgs, loginURL, calls, gate, rejection, response, reread,
                 nextId, storage, password, raced, extWrites>>

\* The update settles; saveToStorage is called.
UpdateDone(f) ==
  /\ pc[f] = "update"
  /\ allowances' = update(allowances, allowance[f].id)
  /\ allowance' = Set(allowance, f, NoAllowance)
  /\ calls' = Called(f, "flush")
  /\ pc' = Set(pc, f, "flush")
  /\ UNCHANGED <<message, details, lnurlDetails, loginStatus, authResponse,
                 result, published, signArgs, loginURL, gate, rejection,
                 response, reread, nextId, storage, password, raced,
                 extWrites>>

\* saveToStorage settles; the response data is returned.
FlushDone(f) ==
  /\ pc[f] = "flush"
  /\ storage' = allowances
  /\ calls' = Called(f, "flushed")
  /\ pc' = Set(pc, f, "returned")
  /\ result' = Set(result, f, RData(authResponse[f]))
  /\ authResponse' = Set(authResponse, f, Body(undefined, undefined))
  /\ UNCHANGED <<message, details, lnurlDetails, allowance, loginStatus,
                 published, signArgs, loginURL, gate, rejection, response,
                 reread, allowances, nextId, password, raced, extWrites>>

\* ------------------------------------------------------- environment
\* The wallet is unlocked or locked.
Unlock ==
  /\ password = null
  /\ password' = "secret"
  /\ UNCHANGED <<flowVars, storeVars, raced, extWrites>>

Lock ==
  /\ password # null
  /\ password' = null
  /\ UNCHANGED <<flowVars, storeVars, raced, extWrites>>

\* Other writers of the allowances table: a site is enabled (a row is
\* added), the user switches a flag of a row, the user deletes a row.
Wrote(id) ==
  [f \in Flows |-> raced[f] \/ (pc[f] = "update" /\ allowance[f].id = id)]

ExtAdd ==
  /\ extWrites < MaxExtWrites
  /\ \E h \in RecordHosts :
       /\ ~HasRow(h)
       /\ allowances' = [id \in DOMAIN allowances \cup {nextId} |->
                           IF id = nextId THEN NewRow(h) ELSE allowances[id]]
  /\ raced' = raced
  /\ nextId' = nextId + 1
  /\ extWrites' = extWrites + 1
  /\ UNCHANGED <<flowVars, storage, password>>

ExtSetEnabled ==
  /\ extWrites < MaxExtWrites
  /\ \E id \in DOMAIN allowances :
       /\ allowances' = [allowances EXCEPT ![id].enabled = ~@]
       /\ raced' = Wrote(id)
  /\ extWrites' = extWrites + 1
  /\ UNCHANGED <<flowVars, nextId, storage, password>>

ExtSetLnurlAuth ==
  /\ extWrites < MaxExtWrites
  /\ \E id \in DOMAIN allowances :
       /\ allowances' = [allowances EXCEPT ![id].lnurlAuth = ~@]
       /\ raced' = Wrote(id)
  /\ extWrites' = extWrites + 1
  /\ UNCHANGED <<flowVars, nextId, storage, password>>

ExtDelete ==
  /\ extWrites < MaxExtWrites
  /\ \E id \in DOMAIN allowances :
       /\ allowances' = [i \in DOMAIN allowances \ {id} |-> allowances[i]]
       /\ raced' = Wrote(id)
  /\ extWrites' = extWrites + 1
  /\ UNCHANGED <<flowVars, nextId, storage, password>>

Next ==
  \/ \E f \in Flows :
       \/ Start(f)
       \/ LookupDone(f)
       \/ PromptResolve(f)
       \/ PromptReject(f)
       \/ ConnectorResolve(f)
       \/ ConnectorReject(f)
       \/ SignResolve(f)
       \/ SignReject(f)
       \/ HttpResolve(f)
       \/ HttpReject(f)
       \/ RereadDone(f)
       \/ UpdateDone(f)
       \/ FlushDone(f)
  \/ Unlock
  \/ Lock
  \/ ExtAdd
  \/ ExtSetEnabled
  \/ ExtSetLnurlAuth
  \/ ExtDelete

Spec == Init /\ [][Next]_vars

\* ------------------------------------------------------------ claims
Tag(f) == lnurlDetails[details[f]].tag
HasChallenge(f) == details[f] # "none"
\* "OK", whatever the case of its letters.
IsOK(status) == status \in {"OK", "Ok", "oK", "ok"}
Success(f) == response[f].resolved /\ IsOK(response[f].body.status)
NoneCalled(f, whats) == \A w \in whats : calls[f][w] = 0

\* C1: signMessage and the HTTP GET are called only after a decision with
\* confirmed = true was obtained, synthesised by the auto-approve path or
\* returned by the prompt; after a prompt that resolved with confirmed = false
\* or rejected, neither is ever called.
ConsentBeforeSigning ==
  \A f \in Flows :
    /\ (calls[f].sign > 0 \/ calls[f].http > 0
          \/ pc[f] \in {"connector", "sign", "http"}) =>
         /\ loginStatus[f].confirmed
         /\ \/ calls[f].prompt = 0 /\ gate[f] = "trusted"
            \/ calls[f].prompt = 1 /\ pc[f] # "prompt"
    /\ (calls[f].prompt = 1 /\ pc[f] # "prompt" /\ ~loginStatus[f].confirmed) =>
         /\ NoneCalled(f, {"sign", "http"})
         /\ pc[f] = "returned"

\* A prompted flow whose user confirmed has sent its GET.
ConsentBeforeSigningWitness ==
  \E f \in Flows :
    calls[f].prompt = 1 /\ loginStatus[f].confirmed /\ calls[f].http = 1

\* C2: the prompt is skipped, with the decision {confirmed: true, remember:
\* true}, exactly when at decision time the wallet is unlocked and a row of
\* the origin host has enabled and lnurlAuth both true; in every other case
\* the prompt is opened exactly once, before any derivation.
PromptSkippedIffTrusted ==
  \A f \in Flows :
    gate[f] # "undecided" =>
      /\ (gate[f] = "trusted") <=> (calls[f].prompt = 0)
      /\ gate[f] = "trusted" =>
           loginStatus[f] = [confirmed |-> TRUE, remember |-> TRUE]
      /\ gate[f] = "untrusted" =>
           /\ calls[f].prompt = 1
           /\ pc[f] = "prompt" =>
                loginStatus[f] = NoStatus /\ NoneCalled(f, {"sign", "http"})

\* One flow went from the lookup straight to signing, another was prompted
\* although the wallet is unlocked.
PromptSkippedIffTrustedWitness ==
  \E f, g \in Flows :
    /\ gate[f] = "trusted" /\ calls[f].prompt = 0 /\ calls[f].sign = 1
    /\ gate[g] = "untrusted" /\ calls[g].prompt = 1 /\ calls[g].sign = 1

\* C3: when the prompt rejects, the flow returns a failure whose reason is
\* the rejection message, and nothing was signed, derived, sent, updated or
\* saved for that request.
PromptRejectionEndsFlow ==
  \A f \in Flows :
    rejection[f].by = "prompt" =>
      /\ pc[f] = "returned"
      /\ result[f].kind = "error"
      /\ result[f].error = IF rejection[f].e.isError
                             THEN rejection[f].e.message
                             ELSE rejection[f].e.value
      /\ NoneCalled(f, {"sign", "http", "update", "flush", "flushed"})
      /\ signArgs[f] = NoSignArgs
      /\ loginURL[f] = NoURL

\* A prompt was rejected with something that is no Error.
PromptRejectionEndsFlowWitness ==
  \E f \in Flows :
    /\ rejection[f].by = "prompt"
    /\ ~rejection[f].e.isError
    /\ result[f].kind = "error"

\* C4 as claimed: every challenge whose tag is not "login" ends in the
\* unsupported-tag failure, with signMessage and the GET never called.
UnsupportedTagAlwaysFails ==
  \A f \in Flows :
    (HasChallenge(f) /\ Tag(f) # "login") =>
      /\ NoneCalled(f, {"sign", "http"})
      /\ pc[f] \in Ended => result[f] = RError(IncorrectTag(Tag(f)))

\* C4 as amended: for a challenge whose tag is not "login", signMessage and
\* the GET are never called; once the decision is confirmed = true the flow
\* has failed with the unsupported-tag failure, published and returned.
UnsupportedTagNeverSigns ==
  \A f \in Flows :
    (HasChallenge(f) /\ Tag(f) # "login") =>
      /\ NoneCalled(f, {"sign", "http", "update", "flush"})
      /\ pc[f] \in {"lookup", "prompt", "returned"}
      /\ loginStatus[f].confirmed =>
           /\ pc[f] = "returned"
           /\ result[f] = RError(IncorrectTag(Tag(f)))
           /\ published[f] = <<"lnurl.auth.start", "lnurl.auth.failed">>

\* A confirmed flow of a withdrawRequest challenge has failed on its tag.
UnsupportedTagNeverSignsWitness ==
  \E f \in Flows :
    /\ HasChallenge(f) /\ Tag(f) = "withdrawRequest"
    /\ loginStatus[f].confirmed
    /\ result[f].kind = "error"

\* C5: the flow succeeds (success published, data returned) if and only if
\* the GET completed with a status that is "OK" in any case; every other
\* completed response and every transport failure ends in Failed (failed
\* published, a failure returned).
SucceededIffStatusOK ==
  \A f \in Flows :
    LET succeeded ==
          \E i \in DOMAIN published[f] : published[f][i] = "lnurl.auth.success"
        failed ==
          /\ pc[f] = "returned"
          /\ result[f].kind = "error"
          /\ published[f][Len(published[f])] = "lnurl.auth.failed"
    IN  /\ (succeeded \/ result[f].kind = "data") => Success(f)
        /\ Success(f) =>
             /\ succeeded
             /\ pc[f] \in Ended => pc[f] = "returned" /\ result[f].kind = "data"
        /\ (response[f].resolved /\ ~IsOK(response[f].body.status)) => failed
        /\ rejection[f].by = "http" => failed

\* C6: when dispatch fails, the reason returned is the server's reason when
\* the body carries one (a status that is not OK, or a response that is not
\* 2xx), and otherwise the transport error message: a failure returned
\* after a response, or after the GET rejected with an Error, has a reason,
\* the server's if there is one and else the Error's message.
DispatchFailureReason ==
  \A f \in Flows :
    /\ (response[f].resolved /\ result[f].kind = "error") =>
         /\ result[f].error # undefined
         /\ response[f].body.reason # undefined =>
              result[f].error = response[f].body.reason
    /\ (rejection[f].by = "http" /\ rejection[f].e.isError) =>
         /\ result[f].kind = "error"
         /\ result[f].error =
              IF rejection[f].e.reason # undefined
                THEN rejection[f].e.reason
                ELSE rejection[f].e.message

\* C7: every error is returned to the caller as a failure with a reason: no
\* flow that was rejected by the prompt, or was confirmed and did not get an
\* OK response, ends without an outcome, with a failure without a reason, or
\* by an exception.
EveryErrorHasReason ==
  \A f \in Flows :
    (/\ pc[f] \in Ended
     /\ rejection[f].by = "prompt" \/ loginStatus[f].confirmed
     /\ ~Success(f)) =>
      /\ pc[f] = "returned"
      /\ result[f].kind = "error"
      /\ result[f].error # undefined

\* C8 as claimed: a flow that returned success with remember = true called
\* update exactly once and saved before it returned.
RememberUpdatesOnce ==
  \A f \in Flows :
    (pc[f] = "returned" /\ result[f].kind = "data" /\ loginStatus[f].remember) =>
      calls[f].update = 1 /\ calls[f].flushed = 1

\* C8 as amended: a flow that returned success with remember = true called
\* update exactly once when the re-read found a row of the host, and not at
\* all when it found none; in both cases saveToStorage was called once and
\* had completed before the flow returned.  The update is for the id of a
\* row of the request's host.
RememberSavesBeforeReturn ==
  \A f \in Flows :
    /\ (pc[f] = "returned" /\ result[f].kind = "data" /\ loginStatus[f].remember) =>
         /\ reread[f] # "none"
         /\ calls[f].update = IF reread[f] = "found" THEN 1 ELSE 0
         /\ calls[f].flush = 1
         /\ calls[f].flushed = 1
    /\ pc[f] = "update" =>
         /\ allowance[f].id # 0
         /\ equalsIgnoreCase(allowance[f].host, message[f].host)

\* Both cases: one flow returned after update and save, another after the
\* save alone.
RememberSavesBeforeReturnWitness ==
  \E f, g \in Flows :
    /\ pc[f] = "returned" /\ result[f].kind = "data" /\ loginStatus[f].remember
    /\ calls[f].update = 1 /\ calls[f].flushed = 1
    /\ pc[g] = "returned" /\ result[g].kind = "data" /\ loginStatus[g].remember
    /\ calls[g].update = 0 /\ calls[g].flushed = 1

\* The step of flow f in which its update settles.
UpdateStep(f) == pc[f] = "update" /\ pc'[f] = "flush"

\* C9 as claimed: the update of a flow loses no change another writer made
\* while the request was in flight.  A flow that was auto-approved saw
\* lnurlAuth = true at its lookup, and no flow writes false: if its update
\* finds lnurlAuth = false, another writer switched it off in between, and
\* the update must leave it off.
UpdateKeepsConcurrentChanges ==
  [][\A f \in Flows :
       (/\ UpdateStep(f)
        /\ gate[f] = "trusted"
        /\ allowance[f].id \in DOMAIN allowances
        /\ ~allowances[allowance[f].id].lnurlAuth) =>
         ~allowances'[allowance[f].id].lnurlAuth]_vars

\* C9 as amended: the update of a flow writes one field of one row, lnurlAuth
\* = true of the row the re-read found: it creates no row (a row deleted
\* since the re-read stays deleted), and leaves the host and enabled of every
\* row, and every other row, as the other writers left them.  (A concurrent
\* lnurlAuth = false on that row is overwritten.)
UpdatePatchesOneField ==
  [][\A f \in Flows :
       UpdateStep(f) =>
         /\ DOMAIN allowances' = DOMAIN allowances
         /\ \A id \in DOMAIN allowances :
              /\ allowances'[id].host = allowances[id].host
              /\ allowances'[id].enabled = allowances[id].enabled
              /\ allowances'[id].lnurlAuth =
                   IF id = allowance[f].id THEN TRUE ELSE allowances[id].lnurlAuth]_vars

\* Another writer wrote the row between a flow's re-read and its update, and
\* the update has settled.
UpdatePatchesOneFieldWitness ==
  \E f \in Flows : raced[f] /\ calls[f].update = 1 /\ pc[f] = "flush"

\* C10: once signing has started, the flow runs to Succeeded or Failed and
\* returns the matching outcome: a flow that called signMessage and ended
\* has returned data after publishing success, or a failure after
\* publishing failed.
SignedFlowReturnsOutcome ==
  \A f \in Flows :
    (pc[f] \in Ended /\ calls[f].sign > 0) =>
      /\ pc[f] = "returned"
      /\ \/ /\ result[f].kind = "data"
            /\ published[f][Len(published[f])] = "lnurl.auth.success"
         \/ /\ result[f].kind = "error"
            /\ published[f][Len(published[f])] = "lnurl.auth.failed"

\* The step is one of flow f.
StepOf(f) == pc'[f] # pc[f]
Last(topics) == topics[Len(topics)]
Count(topics, t) == Cardinality({i \in DOMAIN topics : topics[i] = t})

\* C11: within one request the prompt, signMessage and the GET are each
\* called at most once and one after the other (while the prompt is open
\* nothing was signed or sent, while signMessage is awaited nothing was
\* sent), and a rejection of any of them ends the request.
NoRetries ==
  \A f \in Flows :
    /\ calls[f].prompt <= 1 /\ calls[f].sign <= 1 /\ calls[f].http <= 1
    /\ pc[f] \in {"lookup", "prompt", "connector"} => NoneCalled(f, {"sign", "http"})
    /\ pc[f] = "prompt" => calls[f].prompt = 1
    /\ pc[f] = "sign" => calls[f].sign = 1 /\ calls[f].http = 0
    /\ pc[f] = "http" => calls[f].sign = 1 /\ calls[f].http = 1
    /\ rejection[f].by # "none" => pc[f] = "returned"

\* A flow called all three once and ended on the rejection of its GET.
NoRetriesWitness ==
  \E f \in Flows :
    /\ calls[f].prompt = 1 /\ calls[f].sign = 1 /\ calls[f].http = 1
    /\ rejection[f].by = "http"
    /\ pc[f] = "returned"

\* C12: start is published once, when the flow begins; a flow that ended
\* with data published start and then success and nothing else, and a flow
\* that ended with a failure, by any route, the rejection of the prompt
\* included, published start and then failed and nothing else.
LifecycleNotifications ==
  \A f \in Flows :
    /\ Count(published[f], "lnurl.auth.start") <= 1
    /\ message[f].hasHost => published[f][1] = "lnurl.auth.start"
    /\ (pc[f] \in Ended /\ result[f].kind = "data") =>
         published[f] = <<"lnurl.auth.start", "lnurl.auth.success">>
    /\ (pc[f] \in Ended /\ result[f].kind = "error") =>
         published[f] = <<"lnurl.auth.start", "lnurl.auth.failed">>

\* C13: the login URL carries sig, key and t and every other parameter of
\* the service URL as it was, and building it changes nothing else: the
\* LNURLDetails object a caller passed in is never written to.
ChallengeUnchanged ==
  [][/\ \A d \in Challenges :
          lnurlDetails[d] # NoDetails => lnurlDetails'[d] = lnurlDetails[d]
     /\ \A f \in Flows :
          (pc[f] = "sign" /\ pc'[f] = "http") =>
            LET before == lnurlDetails[details[f]].url
                after == loginURL'[f]
            IN  /\ after.host = before.host
                /\ \A p \in {"sig", "key", "t"} : after.searchParams[p] # Empty
                /\ \A p \in ParamNames \ {"sig", "key", "t"} :
                     after.searchParams[p] = before.searchParams[p]]_vars

\* The challenge flow f was passed.
Challenge(f) == lnurlDetails[details[f]]
\* The linking public key of a wallet signature and a service host.
LinkingKey(sig, host) == pkHex(hmacSHA256(host, sha256(sig)))

LastWriterWins ==
  (/\ extWrites = 0
   /\ \A f \in Flows :
        pc[f] = "returned" /\ result[f].kind = "data" /\ calls[f].update = 1) =>
    \A f \in Flows : first(allowances, message[f].host).lnurlAuth

\* C15: concurrent flows share nothing they can write but the trust store:
\* a step of one flow leaves the other flow's decision, signing arguments,
\* login URL, notifications and outcome, and the challenge the other flow
\* was passed, as they were; and two concurrent successful remember flows on
\* the same row leave it with lnurlAuth = true.
FlowsShareOnlyTrustStore ==
  [][/\ \A f, g \in Flows :
          (f # g /\ StepOf(f) /\ ~StepOf(g)) =>
            /\ loginStatus'[g] = loginStatus[g]
            /\ signArgs'[g] = signArgs[g]
            /\ loginURL'[g] = loginURL[g]
            /\ published'[g] = published[g]
            /\ result'[g] = result[g]
            /\ HasChallenge(g) => Challenge(g)' = Challenge(g)
     /\ LastWriterWins']_vars

\* A precondition of the challenge does not hold.
Violated(det) ==
  \/ det.tag # "login"
  \/ det.url.host = Empty
  \/ det.k1 = Empty
  \/ hexToUint8Array(det.k1) = Empty

\* The failure of the first precondition of the challenge that does not hold,
\* for a signature that is not empty.
FirstViolation(det) ==
  CASE det.tag # "login" -> IncorrectTag(det.tag)
    [] det.url.host = Empty -> "Invalid input"
    [] OTHER -> "Invalid K1"

AwaitGraph ==
  [lookup |-> {"prompt", "connector", "returned"},
   prompt |-> {"connector", "returned"},
   connector |-> {"sign", "returned"},
   sign |-> {"http", "returned"},
   http |-> {"reread", "returned", "threw"},
   reread |-> {"update", "flush"},
   update |-> {"flush"},
   flush |-> {"returned"}]

StoreWrittenOnlyOnRemember ==
  [][\A f \in Flows :
       /\ (\/ calls'[f].update > 0 \/ calls'[f].flush > 0
           \/ pc'[f] \in {"reread", "update", "flush"}) =>
            /\ Success(f)'
            /\ loginStatus'[f].remember
            /\ Count(published'[f], "lnurl.auth.success") = 1
       /\ (StepOf(f) /\ pc[f] # "update") => allowances' = allowances
       /\ (StepOf(f) /\ pc[f] # "flush") => storage' = storage]_vars

\* A flow succeeded without remember, another was refused by the server:
\* neither called update or saveToStorage.
StoreWrittenOnlyOnRememberWitness ==
  \E f, g \in Flows :
    /\ pc[f] = "returned" /\ result[f].kind = "data" /\ ~loginStatus[f].remember
    /\ pc[g] = "returned" /\ response[g].resolved /\ result[g].kind = "error"
    /\ NoneCalled(f, {"update", "flush"}) /\ NoneCalled(g, {"update", "flush"})

\* C19: a step of a flow changes the table only by setting lnurlAuth to true
\* on an existing row of the host of that flow's request: no row is created
\* or removed, no host or enabled changes, no row of another host changes,
\* and no lnurlAuth goes from true to false.
FlowOnlySetsLnurlAuth ==
  [][(\E f \in Flows : StepOf(f)) =>
       /\ DOMAIN allowances' = DOMAIN allowances
       /\ \A id \in DOMAIN allowances :
            /\ allowances'[id].host = allowances[id].host
            /\ allowances'[id].enabled = allowances[id].enabled
            /\ allowances[id].lnurlAuth => allowances'[id].lnurlAuth
            /\ allowances'[id].lnurlAuth # allowances[id].lnurlAuth =>
                 \E f \in Flows :
                   /\ UpdateStep(f)
                   /\ equalsIgnoreCase(allowances[id].host, message[f].host)]_vars

\* A site was enabled after the table was last persisted (its row is new,
\* lnurlAuth = false), and the update of a prompted flow has set lnurlAuth on
\* that row.
FlowOnlySetsLnurlAuthWitness ==
  \E f \in Flows :
    /\ gate[f] = "untrusted" /\ calls[f].update = 1 /\ pc[f] = "flush"
    /\ storage = <<>> /\ extWrites = 1
    /\ allowances = <<[NewRow("Site.com") EXCEPT !.lnurlAuth = TRUE]>>

\* C20: a request whose origin has no host returns at once with nothing
\* done: nothing published, the allowances not read, no prompt, no
\* signMessage, no GET, no update, no save, and the table and the persisted
\* copy untouched by it.
NoHostNoEffect ==
  [][\A f \in Flows :
       (StepOf(f) /\ ~message'[f].hasHost) =>
         /\ pc[f] = "idle" /\ pc'[f] = "returned"
         /\ result'[f] = RUndefined
         /\ published'[f] = <<>>
         /\ calls'[f] = NoCalls
         /\ gate'[f] = "undecided" /\ reread'[f] = "none"
         /\ signArgs'[f] = NoSignArgs /\ loginURL'[f] = NoURL
         /\ UNCHANGED <<allowances, storage, lnurlDetails>>]_vars

\* A request without a host has returned while another flow is in flight.
NoHostNoEffectWitness ==
  \E f, g \in Flows :
    /\ pc[f] = "returned" /\ ~message[f].hasHost /\ result[f] = RUndefined
    /\ InFlight(g)

====
